---- MODULE Spec2Model ----
(***************************************************************************)
(* travelbee: cheapest hotel week per destination.                         *)
(*                                                                         *)
(* A model of src/main.py (date-window generator, shortlist step, coarse   *)
(* scan, refinement scan, result emission) and of the status handling of   *)
(* src/amadeus_client.py (AmadeusClient.hotel_search_offers).              *)
(*                                                                         *)
(* Representation.  A datetime.date is its proleptic Gregorian ordinal     *)
(* (date.toordinal()).  An ISO string "YYYY-MM-DD" (date.isoformat()) is   *)
(* the triple <<year, month, day>>.  An optional value (None or a value)   *)
(* is a sequence of length 0 or 1.  A float total is a natural number;     *)
(* math.inf is the record FloatInf.  hotelName, offerId and currency are   *)
(* labels copied unchanged beside hotelId and total and are not modelled;  *)
(* an offer without price.total or price.currency is an unpriced offer.    *)
(***************************************************************************)
EXTENDS Integers, Sequences, FiniteSets, TLC

\* ------------------------------------------------------------------------
\* Bounds of the model
\* ------------------------------------------------------------------------
MaxPrice == 2          \* offer totals are 1..MaxPrice
MaxOffers == 2         \* offers in one response, over all its hotels
MaxListLen == 3        \* hotel records returned by the hotel-list call
MaxLos == 7            \* length-of-stay values of the date-window inputs

\* ------------------------------------------------------------------------
\* datetime.date arithmetic (CPython datetime semantics)
\* ------------------------------------------------------------------------
IsLeap(y) == (y % 4 = 0) /\ ((y % 100 # 0) \/ (y % 400 = 0))

DaysBeforeYear(y) ==
  LET p == y - 1 IN p * 365 + (p \div 4) - (p \div 100) + (p \div 400)

DaysInMonth(y, m) ==
  IF m = 2 THEN (IF IsLeap(y) THEN 29 ELSE 28)
  ELSE IF m \in {4, 6, 9, 11} THEN 30 ELSE 31

RECURSIVE DaysBeforeMonth(_, _)
DaysBeforeMonth(y, m) ==
  IF m = 1 THEN 0 ELSE DaysBeforeMonth(y, m - 1) + DaysInMonth(y, m - 1)

\* date(y, m, d).toordinal()
Ymd2Ord(y, m, d) == DaysBeforeYear(y) + DaysBeforeMonth(y, m) + d

\* (y, m, d) of an ordinal, as date.fromordinal computes it
Ord2Ymd(ord) ==
  LET n0   == ord - 1
      n400 == n0 \div 146097
      r400 == n0 % 146097
      n100 == r400 \div 36524
      r100 == r400 % 36524
      n4   == r100 \div 1461
      r4   == r100 % 1461
      n1   == r4 \div 365
      n    == r4 % 365
      year == n400 * 400 + 1 + n100 * 100 + n4 * 4 + n1
  IN IF n1 = 4 \/ n100 = 4 THEN <<year - 1, 12, 31>>
     ELSE LET leap  == (n1 = 3) /\ ((n4 # 24) \/ (n100 = 3))
              yr    == IF leap THEN 4 ELSE 1   \* a year with that leapness
              mEst  == (n + 50) \div 32
              prec  == DaysBeforeMonth(yr, mEst)
              month == IF prec > n THEN mEst - 1 ELSE mEst
              prec2 == IF prec > n THEN prec - DaysInMonth(yr, mEst - 1) ELSE prec
          IN <<year, month, n - prec2 + 1>>

\* date.weekday(): Monday is 0
Weekday(d) == (d + 6) % 7

\* d.isoformat() and datetime.fromisoformat(s).date()
IsoFormat(d) == Ord2Ymd(d)
FromIso(s) == Ymd2Ord(s[1], s[2], s[3])

\* d + timedelta(days=n)
PlusDays(d, n) == d + n

\* ------------------------------------------------------------------------
\* date_range and sliding_windows
\* ------------------------------------------------------------------------
date_range(start, end, step_days) ==
  IF start > end THEN << >>
  ELSE [i \in 1..((end - start) \div step_days + 1) |-> start + (i - 1) * step_days]

\* date(year, last_month, 1) + relativedelta(months=1)
FirstOfNext(year, month) ==
  IF month = 12 THEN Ymd2Ord(year + 1, 1, 1) ELSE Ymd2Ord(year, month + 1, 1)

\* variant: the window ends los days before the last day
WindowEnd_Short(last_day_of_last, los) == PlusDays(last_day_of_last, -los)

WindowEnd(last_day_of_last, los) == PlusDays(last_day_of_last, -(los - 1))

DowAllowed(d, coarse_dows) == Weekday(d) \in coarse_dows

sliding_windows(config) ==
  LET year   == config.year
      months == config.summer_months
      los    == config.length_of_stay_nights
      start  == Ymd2Ord(year, months[1], 1)
      last_month == months[Len(months)]
      first_of_next == FirstOfNext(year, last_month)
      last_day_of_last == PlusDays(first_of_next, -1)
      end    == WindowEnd(last_day_of_last, los)
  IN IF config.full_daily_scan
     THEN date_range(start, end, 1)
     ELSE SelectSeq(date_range(start, end, 1),
                    LAMBDA d : DowAllowed(d, config.coarse_days_of_week))

\* ------------------------------------------------------------------------
\* Shortlist step
\* ------------------------------------------------------------------------
NoId == ""             \* a record without hotelId (h.get("hotelId") is falsy)

\* variant: records without identifier are kept
HasId_Any(h) == TRUE

\* [h.get("hotelId") for h in hotels if h.get("hotelId")]
HasId(h) == h.hotelId # NoId

IdsOf(hotels) ==
  LET withId == SelectSeq(hotels, HasId)
  IN [i \in 1..Len(withId) |-> withId[i].hotelId]

InSeq(x, s) == \E i \in 1..Len(s) : s[i] = x

\* the uniq_ids / seen loop
RECURSIVE Dedup(_, _)
Dedup(ids, uniq) ==
  IF ids = << >> THEN uniq
  ELSE Dedup(Tail(ids), IF InSeq(Head(ids), uniq) THEN uniq ELSE Append(uniq, Head(ids)))

\* variant: one identifier more than the cap
Cap_OneMore(uniq_ids, max_hotels) ==
  SubSeq(uniq_ids, 1, IF max_hotels + 1 < Len(uniq_ids) THEN max_hotels + 1 ELSE Len(uniq_ids))

\* uniq_ids[:max_hotels]
Cap(uniq_ids, max_hotels) ==
  SubSeq(uniq_ids, 1, IF max_hotels < Len(uniq_ids) THEN max_hotels ELSE Len(uniq_ids))

Shortlist(hotels, max_hotels) == Cap(Dedup(IdsOf(hotels), << >>), max_hotels)

\* chunks(lst, n)
chunks(lst, n) ==
  [i \in 1..((Len(lst) + n - 1) \div n) |->
     SubSeq(lst, (i - 1) * n + 1, IF i * n < Len(lst) THEN i * n ELSE Len(lst))]

\* ------------------------------------------------------------------------
\* Offers: parse_search_response and the winner of a date
\* ------------------------------------------------------------------------
FloatInf == [inf |-> TRUE, v |-> 0]
Fin(n) == [inf |-> FALSE, v |-> n]

\* variant: `<=`, a later date with an equal total replaces the earlier one
Improves_OrEqual(total, best_total) == best_total.inf \/ total <= best_total.v

\* variant: every date's winner replaces the running best
Improves_Always(total, best_total) == TRUE

\* total < best_total, best_total possibly math.inf
Improves(total, best_total) == best_total.inf \/ total < best_total.v

\* (best is None) or (total < best[0])
CheaperOffer(total, best) == best = << >> \/ total < best[1]

\* the loop over one hotel's offers: the first offer with the lowest total
RECURSIVE BestOffer(_, _)
BestOffer(offers, best) ==
  IF offers = << >> THEN best
  ELSE LET off == Head(offers)
       IN BestOffer(Tail(offers),
                    IF off.priced /\ CheaperOffer(off.total, best)
                    THEN <<off.total>> ELSE best)

RECURSIVE parse_search_response(_)
parse_search_response(data) ==
  IF data = << >> THEN << >>
  ELSE LET hotel == Head(data)
           best  == BestOffer(hotel.offers, << >>)
       IN (IF best # << >>
           THEN <<[hotelId |-> hotel.hotelId, total |-> best[1]]>>
           ELSE << >>) \o parse_search_response(Tail(data))

\* min(totals_for_date, key=lambda x: x["total"]): the first minimal element
RECURSIVE MinBy(_, _)
MinBy(totals, cur) ==
  IF totals = << >> THEN cur
  ELSE MinBy(Tail(totals), IF Head(totals).total < cur.total THEN Head(totals) ELSE cur)

Winner(totals_for_date) == MinBy(Tail(totals_for_date), Head(totals_for_date))

\* ------------------------------------------------------------------------
\* AmadeusClient.hotel_search_offers: what the caller gets for a response
\* ------------------------------------------------------------------------
IsHttpError(status) == status >= 400 /\ status < 600

\* variant: 429 handled like any other error status
hotel_search_offers_No429(status, body) ==
  IF IsHttpError(status)
  THEN IF status = 400 THEN [kind |-> "raise", exc |-> "ValueError", data |-> << >>]
       ELSE [kind |-> "None", exc |-> "", data |-> << >>]
  ELSE [kind |-> "json", exc |-> "", data |-> body]

hotel_search_offers(status, body) ==
  IF IsHttpError(status)
  THEN IF status = 429 THEN [kind |-> "raise", exc |-> "RuntimeError", data |-> << >>]
       ELSE IF status = 400 THEN [kind |-> "raise", exc |-> "ValueError", data |-> << >>]
       ELSE [kind |-> "None", exc |-> "", data |-> << >>]
  ELSE [kind |-> "json", exc |-> "", data |-> body]

\* variant: the last night's date instead of the day after it
CheckOut_LastNight(check_in, los) == IsoFormat(PlusDays(FromIso(check_in), los - 1))

\* check_in + timedelta(days=los), as ISO strings
CheckOut(check_in, los) == IsoFormat(PlusDays(FromIso(check_in), los))

\* variant: the window stops one day short
RefineDates_OpenEnd(d0, refine_days) ==
  date_range(PlusDays(d0, -refine_days), PlusDays(d0, refine_days - 1), 1)

\* date_range(d0 - refine_days, d0 + refine_days, 1)
RefineDates(d0, refine_days) ==
  date_range(PlusDays(d0, -refine_days), PlusDays(d0, refine_days), 1)

\* ------------------------------------------------------------------------
\* Inputs: configurations, destinations and what the upstream API returns
\* ------------------------------------------------------------------------
NumPlaces == 2         \* places of destinations.yaml, visited in order

Cfg(y, ms, los, full, dows, n, maxh, bs) ==
  [year |-> y, summer_months |-> ms, length_of_stay_nights |-> los,
   full_daily_scan |-> full, coarse_days_of_week |-> dows,
   refine_window_days |-> n, max_hotels_per_place |-> maxh, batch_size |-> bs]

\* config.yaml of the scanned runs: short windows, so that a run stays small
ScanConfigs ==
  { Cfg(2023, <<2>>, 14, FALSE, {0}, 0, 1, 1),      \* Mon 6 and Mon 13 Feb
    Cfg(2023, <<2>>, 22, FALSE, {2}, 1, 1, 2),      \* Wed 1 Feb, refined 31 Jan..2 Feb
    Cfg(2024, <<1, 2>>, 60, TRUE, {}, 0, 2, 1),     \* 1 Jan, two batches of one hotel
    Cfg(2024, <<2>>, 28, FALSE, {3, 5}, 0, 2, 2),   \* Thu 1 Feb, one batch of two hotels
    Cfg(2023, <<12>>, 31, TRUE, {}, 0, 1, 1),       \* 1 Dec, check-out next year
    Cfg(2023, <<2>>, 29, TRUE, {}, 1, 2, 1) }       \* empty window

\* config.yaml of the date-window runs
WinConfigs ==
  { Cfg(y, ms, los, full, dows, 1, 1, 1) :
      y \in {2023, 2024}, ms \in {<<2>>, <<6, 7>>, <<12>>, <<1, 2>>},
      los \in (0..MaxLos) \cup {27, 28, 29, 30}, full \in BOOLEAN,
      dows \in {{}, {0}, {0, 3, 5}, {6}, 0..6} }

HotelIds == {"h1", "h2", "h3"}

\* what hotel_list_by_geocode may return
HotelRecords == [hotelId : HotelIds \cup {NoId}]
RECURSIVE SeqsUpTo(_, _)
SeqsUpTo(S, n) ==
  IF n = 0 THEN {<< >>}
  ELSE LET shorter == SeqsUpTo(S, n - 1)
       IN shorter \cup {Append(q, x) : q \in {r \in shorter : Len(r) = n - 1}, x \in S}

AllHotelLists == SeqsUpTo(HotelRecords, MaxListLen)
ScanHotelLists ==
  { << >>, <<[hotelId |-> NoId]>>,
    <<[hotelId |-> "h1"], [hotelId |-> NoId], [hotelId |-> "h1"], [hotelId |-> "h2"]>> }

\* offers of one hotel in a response, and the bodies a batch can get
Offers == [priced : {TRUE}, total : 1..MaxPrice] \cup {[priced |-> FALSE, total |-> 0]}
OfferLists == SeqsUpTo(Offers, MaxOffers)
RECURSIVE NumOffers(_)
NumOffers(body) == IF body = << >> THEN 0 ELSE Len(Head(body).offers) + NumOffers(Tail(body))
BodiesOf(batch) ==
  {b \in SeqsUpTo([hotelId : {batch[i] : i \in 1..Len(batch)}, offers : OfferLists],
                  Len(batch)) : NumOffers(b) <= MaxOffers}
\* the batches of the scanned runs, each with its bodies
ScanBatches == {q \in SeqsUpTo({"h1", "h2"}, 2) : q # << >>}
BodyTable == [batch \in ScanBatches |-> BodiesOf(batch)]
Bodies(batch) == BodyTable[batch]

Statuses == {200, 400, 429, 500}

\* every priced total of a body, read off the raw response
RawTotals(body) ==
  {body[i].offers[j].total :
     <<i, j>> \in {ij \in (1..Len(body)) \X (1..MaxOffers + 1) :
                     /\ ij[2] <= Len(body[ij[1]].offers)
                     /\ body[ij[1]].offers[ij[2]].priced}}

\* ------------------------------------------------------------------------
\* State
\* ------------------------------------------------------------------------
VARIABLES
  cfg,               \* config.yaml
  pc,                \* "start", "place", "coarse", "refine", "done", "aborted"
  error,             \* the exception that ended the run, "" if none
  base_windows,      \* the coarse check-in dates
  place,             \* index of the place being visited
  hotels,            \* what hotel_list_by_geocode returned for the place
  hotel_ids,         \* the shortlist of the place
  di, bi,            \* position in the date loop and in the batch loop
  totals_for_date,   \* offers merged so far for the current date
  best_total, best,  \* running minimum of the place
  d0,                \* centre of the refinement window
  cheapest_by_place, \* results recorded so far, by place
  raw_quotes,        \* raw_quotes.jsonl
  out_json,          \* cheapest_by_place.json once written
  queries,           \* history: offer queries made for the current place
  prices_seen,       \* history: priced totals returned for the current place
  fatal_seen         \* history: some offer query was answered 429 or 400

vars == <<cfg, pc, error, base_windows, place, hotels, hotel_ids, di, bi,
          totals_for_date, best_total, best, d0, cheapest_by_place, raw_quotes,
          out_json, queries, prices_seen, fatal_seen>>

InitWith(configs) ==
  /\ cfg \in configs
  /\ pc = "start"
  /\ error = ""
  /\ base_windows = << >>
  /\ place = 1
  /\ hotels = << >>
  /\ hotel_ids = << >>
  /\ di = 1 /\ bi = 1
  /\ totals_for_date = << >>
  /\ best_total = FloatInf
  /\ best = << >>
  /\ d0 = 0
  /\ cheapest_by_place = [p \in 1..NumPlaces |-> << >>]
  /\ raw_quotes = << >>
  /\ out_json = << >>
  /\ queries = << >>
  /\ prices_seen = {}
  /\ fatal_seen = FALSE

Init == InitWith(ScanConfigs)

\* ------------------------------------------------------------------------
\* main
\* ------------------------------------------------------------------------
\* base_windows = sliding_windows(cfg); raw_quotes.jsonl is truncated
PrepareDates ==
  /\ pc = "start"
  /\ base_windows' = sliding_windows(cfg)
  /\ raw_quotes' = << >>
  /\ pc' = "place"
  /\ UNCHANGED <<cfg, error, place, hotels, hotel_ids, di, bi, totals_for_date,
                 best_total, best, d0, cheapest_by_place, out_json, queries,
                 prices_seen, fatal_seen>>

\* `continue` of the loop over places
NextPlace(p) == p + 1

\* `if not hotel_ids`
NoHotels(ids) == ids = << >>

\* hotel_list_by_geocode returned `hs`: shortlist, then skip or start the coarse scan
ShortlistWith(lists) ==
  /\ pc = "place"
  /\ place <= NumPlaces
  /\ \E hs \in lists :
       /\ hotels' = hs
       /\ hotel_ids' = Shortlist(hs, cfg.max_hotels_per_place)
  /\ queries' = << >>
  /\ prices_seen' = {}
  /\ IF NoHotels(hotel_ids')
     THEN /\ place' = NextPlace(place)
          /\ pc' = "place"
          /\ UNCHANGED <<best_total, best, di, bi, totals_for_date>>
     ELSE /\ best_total' = FloatInf
          /\ best' = << >>
          /\ di' = 1 /\ bi' = 1
          /\ totals_for_date' = << >>
          /\ pc' = "coarse"
          /\ place' = place
  /\ UNCHANGED <<cfg, error, base_windows, d0, cheapest_by_place, raw_quotes,
                 out_json, fatal_seen>>

ShortlistStep == ShortlistWith(ScanHotelLists)

\* hotel_list_by_geocode raises (r.raise_for_status()): the run ends
HotelListFails ==
  /\ pc = "place"
  /\ place <= NumPlaces
  /\ pc' = "aborted"
  /\ error' = "HTTPError"
  /\ UNCHANGED <<cfg, base_windows, place, hotels, hotel_ids, di, bi,
                 totals_for_date, best_total, best, d0, cheapest_by_place,
                 raw_quotes, out_json, queries, prices_seen, fatal_seen>>

\* the end of one date of a scan: winner, log record, running minimum
LogAfter(log, p, d, totals) ==
  IF totals = << >> THEN log
  ELSE Append(log, [place |-> p, checkIn |-> IsoFormat(d), winner |-> Winner(totals)])

BestAfter(b, bt, d, totals) ==
  IF totals # << >> /\ Improves(Winner(totals).total, bt)
  THEN <<[checkIn |-> IsoFormat(d), hotelId |-> Winner(totals).hotelId,
          total |-> Winner(totals).total]>>
  ELSE b

BestTotalAfter(bt, totals) ==
  IF totals # << >> /\ Improves(Winner(totals).total, bt)
  THEN Fin(Winner(totals).total) ELSE bt

\* `if resp is None: continue` of the coarse scan; the refinement scan has no
\* such test and parse_search_response(None) raises AttributeError
NoneIsSkipped(phase) == phase = "coarse"

\* one hotel_search_offers call for date d, and the end of the date after the
\* last batch
Query(phase, d) ==
  \E status \in Statuses :
  \E body \in (IF status = 200 THEN Bodies(chunks(hotel_ids, cfg.batch_size)[bi]) ELSE {<< >>}) :
    LET resp == hotel_search_offers(status, body)
        last == bi = Len(chunks(hotel_ids, cfg.batch_size))
        totals == IF resp.kind = "json"
                  THEN totals_for_date \o parse_search_response(resp.data)
                  ELSE totals_for_date
    IN /\ queries' = Append(queries, <<phase, IsoFormat(d), bi>>)
       /\ fatal_seen' = (fatal_seen \/ status \in {429, 400})
       /\ prices_seen' = prices_seen \cup (IF status = 200 THEN RawTotals(body) ELSE {})
       /\ IF resp.kind = "raise" \/ (resp.kind = "None" /\ ~NoneIsSkipped(phase))
          THEN /\ pc' = "aborted"
               /\ error' = (IF resp.kind = "raise" THEN resp.exc ELSE "AttributeError")
               /\ UNCHANGED <<di, bi, totals_for_date, best_total, best, raw_quotes>>
          ELSE /\ UNCHANGED <<pc, error>>
               /\ IF ~last
                  THEN /\ bi' = bi + 1
                       /\ totals_for_date' = totals
                       /\ UNCHANGED <<di, best_total, best, raw_quotes>>
                  ELSE /\ raw_quotes' = LogAfter(raw_quotes, place, d, totals)
                       /\ best' = BestAfter(best, best_total, d, totals)
                       /\ best_total' = BestTotalAfter(best_total, totals)
                       /\ di' = di + 1
                       /\ bi' = 1
                       /\ totals_for_date' = << >>

CoarseQuery ==
  /\ pc = "coarse"
  /\ di <= Len(base_windows)
  /\ Query("coarse", base_windows[di])
  /\ UNCHANGED <<cfg, base_windows, place, hotels, hotel_ids, d0,
                 cheapest_by_place, out_json>>

\* variant: the test is missing
NoBest_Never(b) == FALSE

\* `if not best`
NoBest(b) == b = << >>

\* after the coarse scan: skip the place, or fix the refinement window
EndCoarse ==
  /\ pc = "coarse"
  /\ di > Len(base_windows)
  /\ IF NoBest(best)
     THEN /\ place' = NextPlace(place)
          /\ pc' = "place"
          /\ UNCHANGED <<d0, di, bi, error>>
     ELSE IF best = << >>
     THEN \* best[0] of None raises TypeError
          /\ pc' = "aborted"
          /\ error' = "TypeError"
          /\ UNCHANGED <<place, d0, di, bi>>
     ELSE /\ d0' = FromIso(best[1].checkIn)
          /\ pc' = "refine"
          /\ di' = 1 /\ bi' = 1
          /\ place' = place
          /\ UNCHANGED error
  /\ UNCHANGED <<cfg, base_windows, hotels, hotel_ids, totals_for_date,
                 best_total, best, cheapest_by_place, raw_quotes, out_json,
                 queries, prices_seen, fatal_seen>>

RefineQuery ==
  /\ pc = "refine"
  /\ di <= Len(RefineDates(d0, cfg.refine_window_days))
  /\ Query("refine", RefineDates(d0, cfg.refine_window_days)[di])
  /\ UNCHANGED <<cfg, base_windows, place, hotels, hotel_ids, d0,
                 cheapest_by_place, out_json>>

\* the record stored in cheapest_by_place
ResultOf(b, los) ==
  [checkIn |-> b.checkIn, checkOut |-> CheckOut(b.checkIn, los),
   hotelId |-> b.hotelId, total |-> b.total]

\* after the refinement scan: record the result of the place
EmitResult ==
  /\ pc = "refine"
  /\ di > Len(RefineDates(d0, cfg.refine_window_days))
  /\ cheapest_by_place' =
       IF NoBest(best) THEN cheapest_by_place
       ELSE [cheapest_by_place EXCEPT
               ![place] = <<ResultOf(best[1], cfg.length_of_stay_nights)>>]
  /\ place' = NextPlace(place)
  /\ pc' = "place"
  /\ UNCHANGED <<cfg, error, base_windows, hotels, hotel_ids, di, bi,
                 totals_for_date, best_total, best, d0, raw_quotes, out_json,
                 queries, prices_seen, fatal_seen>>

\* after the last place: cheapest_by_place.json is written
WriteReports ==
  /\ pc = "place"
  /\ place > NumPlaces
  /\ out_json' = <<cheapest_by_place>>
  /\ pc' = "done"
  /\ UNCHANGED <<cfg, error, base_windows, place, hotels, hotel_ids, di, bi,
                 totals_for_date, best_total, best, d0, cheapest_by_place,
                 raw_quotes, queries, prices_seen, fatal_seen>>

Next ==
  \/ PrepareDates
  \/ ShortlistStep
  \/ HotelListFails
  \/ CoarseQuery
  \/ EndCoarse
  \/ RefineQuery
  \/ EmitResult
  \/ WriteReports

Spec == Init /\ [][Next]_vars

\* ------------------------------------------------------------------------
\* The date-window generator alone, over many configurations
\* ------------------------------------------------------------------------
InitWin == InitWith(WinConfigs)
NextWin == PrepareDates
SpecWin == InitWin /\ [][NextWin]_vars

\* ------------------------------------------------------------------------
\* The shortlist step alone, over every hotel list and cap
\* ------------------------------------------------------------------------
ShortConfigs ==
  { Cfg(2023, <<2>>, 14, FALSE, {0}, 0, maxh, 1) : maxh \in 0..(MaxListLen + 1) }
InitShort == InitWith(ShortConfigs)
ShortlistAny == ShortlistWith(AllHotelLists)
NextShort == PrepareDates \/ ShortlistAny
SpecShort == InitShort /\ [][NextShort]_vars

\* ========================================================================
\* Properties
\* ========================================================================
SetMin(S) == CHOOSE x \in S : \A y \in S : x <= y
Abs(x) == IF x < 0 THEN -x ELSE x
LexLeq(a, b) == a[1] < b[1] \/ (a[1] = b[1] /\ a[2] <= b[2])

\* the calendar day n days after a calendar day, by the calendar alone: within
\* the month if it fits, else on from the first day of the next month
FirstOfNextMonth(t) == IF t[2] < 12 THEN <<t[1], t[2] + 1, 1>> ELSE <<t[1] + 1, 1, 1>>

RECURSIVE DaysLater(_, _)
DaysLater(t, n) ==
  IF t[3] + n <= DaysInMonth(t[1], t[2]) THEN <<t[1], t[2], t[3] + n>>
  ELSE DaysLater(FirstOfNextMonth(t), n - (DaysInMonth(t[1], t[2]) - t[3] + 1))

\* weekday counted from Monday 1 January 2024
WeekdayFromAnchor(d) == (d - Ymd2Ord(2024, 1, 1)) % 7

\* the log records of place p, in the order written
PlaceLog(p) == SelectSeq(raw_quotes, LAMBDA r : r.place = p)

\* the refinement queries among the queries of the current place
RefineQueries == SelectSeq(queries, LAMBDA q : q[1] = "refine")

NumBatches == Len(chunks(hotel_ids, cfg.batch_size))

\* the k-th refinement query of a window centred on d0: dates d0-N .. d0+N,
\* every batch of a date before the next date
ExpectedRefineQuery(k) ==
  <<"refine",
    IsoFormat(d0 - cfg.refine_window_days + ((k - 1) \div NumBatches)),
    ((k - 1) % NumBatches) + 1>>

\* ------------------------------------------------------------------------
\* C4: sliding_windows returns, ascending and without duplicates, exactly
\* the days from the first day of the first month to the last day of the
\* last month minus (length of stay - 1) days that pass the filter (every
\* day under full_daily_scan, else the days whose weekday is configured), so
\* the last date plus (length of stay - 1) stays within the last month.
\* ------------------------------------------------------------------------
InWindow(d) ==
  LET los == cfg.length_of_stay_nights
      ms  == cfg.summer_months
  IN /\ LexLeq(<<cfg.year, ms[1]>>, Ord2Ymd(d))
     /\ LexLeq(Ord2Ymd(d + (los - 1)), <<cfg.year, ms[Len(ms)]>>)

PassesFilter(d) ==
  cfg.full_daily_scan \/ WeekdayFromAnchor(d) \in cfg.coarse_days_of_week

C4_SlidingWindows ==
  pc # "start" =>
    /\ \A i \in 1..Len(base_windows) : \A j \in 1..Len(base_windows) :
         i < j => base_windows[i] < base_windows[j]
    /\ \A i \in 1..Len(base_windows) :
         base_windows[i] \in Ymd2Ord(cfg.year - 1, 11, 1)..Ymd2Ord(cfg.year + 1, 2, 28)
    /\ \A d \in Ymd2Ord(cfg.year - 1, 11, 1)..Ymd2Ord(cfg.year + 1, 2, 28) :
         InSeq(d, base_windows) <=> (InWindow(d) /\ PassesFilter(d))
    /\ base_windows # << >> =>
         LexLeq(Ord2Ymd(base_windows[Len(base_windows)] + cfg.length_of_stay_nights - 1),
                <<cfg.year, cfg.summer_months[Len(cfg.summer_months)]>>)

\* a weekday-filtered window with several dates that leaves days of the range out
C4_Witness ==
  /\ pc # "start"
  /\ ~cfg.full_daily_scan
  /\ Len(base_windows) >= 2
  /\ \E d \in base_windows[1]..base_windows[Len(base_windows)] : ~InSeq(d, base_windows)
  /\ cfg.length_of_stay_nights > 1

\* ------------------------------------------------------------------------
\* C5: the shortlist has no identifier twice, lists identifiers in order of
\* first appearance in the returned list, is a prefix of the full
\* deduplicated list, and is no longer than max_hotels_per_place.
\* ------------------------------------------------------------------------
FirstIndex(id) == SetMin({i \in 1..Len(hotels) : hotels[i].hotelId = id})
IdsReturned == {hotels[i].hotelId : i \in 1..Len(hotels)} \ {NoId}

C5_Shortlist ==
  /\ \A i \in 1..Len(hotel_ids) : hotel_ids[i] \in IdsReturned
  /\ \A i \in 1..Len(hotel_ids) : \A j \in 1..Len(hotel_ids) :
       i < j => FirstIndex(hotel_ids[i]) < FirstIndex(hotel_ids[j])
  /\ \A i \in 1..Len(hotel_ids) : \A id \in IdsReturned :
       FirstIndex(id) < FirstIndex(hotel_ids[i]) => InSeq(id, hotel_ids)
  /\ Len(hotel_ids) <= cfg.max_hotels_per_place
  /\ Len(hotel_ids) = IF Cardinality(IdsReturned) < cfg.max_hotels_per_place
                      THEN Cardinality(IdsReturned) ELSE cfg.max_hotels_per_place

\* a list with a repeated identifier and more identifiers than the cap
C5_Witness ==
  /\ hotel_ids # << >>
  /\ Cardinality(IdsReturned) > cfg.max_hotels_per_place
  /\ \E i \in 1..Len(hotels) : \E j \in 1..Len(hotels) :
       i < j /\ hotels[i].hotelId = hotels[j].hotelId /\ hotels[i].hotelId # NoId

\* ------------------------------------------------------------------------
\* C1: when a result is recorded for a place, its total is the minimum over
\* all priced offers returned by every offer query made for that place, and
\* its check-in date and hotel are those of the first date in scan order
\* whose winner reached that minimum.
\* ------------------------------------------------------------------------
FirstMinRecord(log, m) ==
  log[SetMin({i \in 1..Len(log) : log[i].winner.total = m})]

C1_EmittedIsFirstMinimum_Step ==
  (pc = "refine" /\ pc' = "place") =>
    /\ cheapest_by_place'[place] # << >>
    /\ prices_seen # {}
    /\ LET r == cheapest_by_place'[place][1]
           m == SetMin(prices_seen)
       IN /\ r.total = m
          /\ \E i \in 1..Len(PlaceLog(place)) : PlaceLog(place)[i].winner.total = m
          /\ r.checkIn = FirstMinRecord(PlaceLog(place), m).checkIn
          /\ r.hotelId = FirstMinRecord(PlaceLog(place), m).winner.hotelId

C1_EmittedIsFirstMinimum == [][C1_EmittedIsFirstMinimum_Step]_vars

\* a recorded result whose total was reached on two different dates, while
\* another date of the place had a dearer winner
C1_Witness ==
  \E p \in 1..NumPlaces :
    /\ cheapest_by_place[p] # << >>
    /\ LET log == PlaceLog(p)
           r   == cheapest_by_place[p][1]
       IN /\ \E i \in 1..Len(log) : \E j \in 1..Len(log) :
               /\ i < j
               /\ log[i].winner.total = r.total
               /\ log[j].winner.total = r.total
               /\ log[j].checkIn # log[i].checkIn
          /\ \E k \in 1..Len(log) : log[k].winner.total > r.total

\* ------------------------------------------------------------------------
\* C2: a "no data" answer (None) to an offer query, in the coarse scan or in
\* the refinement scan, never aborts the run: the run ends abnormally only
\* on a 429 or 400 answer or on a failure of the hotel-list call.
\* ------------------------------------------------------------------------
C2_NoDataNeverAborts ==
  pc = "aborted" => error \in {"RuntimeError", "ValueError", "HTTPError"}

\* ------------------------------------------------------------------------
\* C3: the running best total of a place never increases while its dates
\* are scanned, and a best result, once found, is never lost.
\* ------------------------------------------------------------------------
TotalLeq(a, b) == b.inf \/ (~a.inf /\ a.v <= b.v)

C3_BestNeverWorsens_Step ==
  pc \in {"coarse", "refine"} =>
    /\ TotalLeq(best_total', best_total)
    /\ (best # << >> => best' # << >>)
    /\ (best' # << >> => best_total' = Fin(best'[1].total))
    /\ (pc' = "place" /\ best # << >> =>
          /\ cheapest_by_place'[place] # << >>
          /\ cheapest_by_place'[place][1].total = best[1].total)

C3_BestNeverWorsens == [][C3_BestNeverWorsens_Step]_vars

\* a refinement that ended on a date other than the coarse winner's, after
\* some date of the place had a dearer winner
C3_Witness ==
  /\ pc = "refine"
  /\ di > Len(RefineDates(d0, cfg.refine_window_days))
  /\ best[1].checkIn # IsoFormat(d0)
  /\ LET log == PlaceLog(place)
     IN \E i \in 1..Len(log) : \E j \in 1..Len(log) :
          i < j /\ log[i].winner.total < log[j].winner.total

\* ------------------------------------------------------------------------
\* C6: in every recorded result, checkOut is checkIn plus exactly
\* length_of_stay_nights days.
\* ------------------------------------------------------------------------
C6_CheckOut ==
  \A p \in 1..NumPlaces :
    cheapest_by_place[p] # << >> =>
      cheapest_by_place[p][1].checkOut =
        DaysLater(cheapest_by_place[p][1].checkIn, cfg.length_of_stay_nights)

\* a result whose check-in came from the refinement scan, outside the coarse
\* window, with check-out in another month
C6_Witness ==
  /\ pc = "place"
  /\ place > 1
  /\ cheapest_by_place[place - 1] # << >>
  /\ cheapest_by_place[place - 1][1].checkIn # IsoFormat(d0)
  /\ ~InSeq(FromIso(cheapest_by_place[place - 1][1].checkIn), base_windows)
  /\ cheapest_by_place[place - 1][1].checkOut[2] # cheapest_by_place[place - 1][1].checkIn[2]

\* ------------------------------------------------------------------------
\* C7: when the shortlist of a place is empty (as it is when no returned
\* hotel has an identifier), no offer query is made for the place, no result
\* and no log record is written for it, and the run goes on to the next place.
\* ------------------------------------------------------------------------
C7_EmptyShortlistSkips_Step ==
  (pc = "place" /\ place <= NumPlaces /\ pc' # "aborted") =>
    /\ (\A i \in 1..Len(hotels') : hotels'[i].hotelId = NoId) => hotel_ids' = << >>
    /\ hotel_ids' = << >> =>
         /\ pc' = "place"
         /\ place' = place + 1
         /\ queries' = << >>
         /\ cheapest_by_place' = cheapest_by_place
         /\ cheapest_by_place[place] = << >>
         /\ raw_quotes' = raw_quotes
         /\ PlaceLog(place) = << >>

C7_EmptyShortlistSkips == [][C7_EmptyShortlistSkips_Step]_vars

\* the first place, whose hotel list had records but no identifier, has just
\* been skipped without a query
C7_Witness ==
  /\ pc = "place"
  /\ place = 2
  /\ hotels # << >>
  /\ hotel_ids = << >>
  /\ queries = << >>
  /\ raw_quotes = << >>

\* ------------------------------------------------------------------------
\* C8: when the coarse scan of a place ends without a priced offer, no
\* refinement query is made, no result is recorded and the run goes on to
\* the next place; a result is recorded only after a coarse scan that
\* yielded a priced offer.
\* ------------------------------------------------------------------------
C8_NoCoarseWinnerSkips_Step ==
  /\ (pc = "coarse" /\ di > Len(base_windows) /\ prices_seen = {}) =>
       /\ pc' = "place"
       /\ place' = place + 1
       /\ queries' = queries
       /\ cheapest_by_place' = cheapest_by_place
       /\ cheapest_by_place[place] = << >>
  /\ (pc = "coarse" /\ pc' = "refine") => prices_seen # {}
  /\ (cheapest_by_place' # cheapest_by_place) => pc = "refine"

C8_NoCoarseWinnerSkips == [][C8_NoCoarseWinnerSkips_Step]_vars

\* the first place has just been skipped after a coarse scan that made
\* queries and got no priced offer
C8_Witness ==
  /\ pc = "place"
  /\ place = 2
  /\ queries # << >>
  /\ prices_seen = {}
  /\ cheapest_by_place[1] = << >>
  /\ raw_quotes = << >>

\* ------------------------------------------------------------------------
\* C9: a 429 or 400 answer to an offer query is raised as an error (not the
\* "no data" value) and ends the run: no later upstream call, no result
\* recorded for the current or a later place, nothing written.
\* ------------------------------------------------------------------------
C9_FatalAborts ==
  /\ [](fatal_seen =>
          /\ pc = "aborted"
          /\ error \in {"RuntimeError", "ValueError"}
          /\ out_json = << >>
          /\ \A p \in place..NumPlaces : cheapest_by_place[p] = << >>)
  /\ [][pc # "aborted"]_vars

\* the run was aborted in the second place's refinement, after the first
\* place's result had been recorded
C9_Witness ==
  /\ fatal_seen
  /\ place = 2
  /\ cheapest_by_place[1] # << >>
  /\ best # << >>
  /\ RefineQueries # << >>

\* ------------------------------------------------------------------------
\* C10: refinement queries the dates d0-N .. d0+N around the coarse winner's
\* date d0, ascending, every day, each date once per batch, also dates the
\* coarse scan has queried; the window is not moved when a refinement date
\* becomes the best, so the recorded check-in is within N days of d0.
\* ------------------------------------------------------------------------
C10_Step ==
  /\ (pc = "coarse" /\ pc' = "refine") => IsoFormat(d0') = best[1].checkIn
  /\ (pc = "refine" /\ pc' # "aborted") => d0' = d0
  /\ (pc = "refine" /\ pc' = "place") =>
       /\ Len(RefineQueries) = (2 * cfg.refine_window_days + 1) * NumBatches
       /\ Abs(FromIso(cheapest_by_place'[place][1].checkIn) - d0)
            <= cfg.refine_window_days

C10_RefinementWindow ==
  /\ [](pc = "refine" =>
          /\ Len(RefineQueries) = (di - 1) * NumBatches + (bi - 1)
          /\ \A k \in 1..Len(RefineQueries) : RefineQueries[k] = ExpectedRefineQuery(k)
          /\ Abs(FromIso(best[1].checkIn) - d0) <= cfg.refine_window_days)
  /\ [][C10_Step]_vars

\* a completed refinement with N = 1 whose best date lies before the coarse
\* window
C10_Witness ==
  /\ pc = "refine"
  /\ cfg.refine_window_days = 1
  /\ di > Len(RefineDates(d0, cfg.refine_window_days))
  /\ FromIso(best[1].checkIn) < base_windows[1]

\* a refinement with N = 0 that queried the coarse winner's date again
C10_WitnessRequery ==
  /\ pc = "refine"
  /\ cfg.refine_window_days = 0
  /\ \E i \in 1..Len(queries) : \E j \in 1..Len(queries) :
       queries[i][1] = "coarse" /\ queries[j][1] = "refine" /\ queries[i][2] = queries[j][2]

====
